---------------------------- MODULE Spec2Model ----------------------------
(***************************************************************************)
(* AnimationSet (SOUI/include/animator/AnimationSet.h): a composite        *)
(* animation that holds an ordered list of child animations (stored by     *)
(* value in mAnimations), composes their transformations and keeps the     *)
(* shared timing fields.                                                   *)
(*                                                                         *)
(* The base class Animation and the value type Transformation live in      *)
(* animator/Animation.h, which is not part of the sources at hand; the     *)
(* definitions that stand for them are marked "base class" below.          *)
(***************************************************************************)
EXTENDS Integers, Sequences, FiniteSets, TLC

VARIABLES
    mFlags,        \* int mFlags: bitmask of the PROPERTY_*_MASK bits
    mDirty,        \* boolean mDirty (not initialised by the constructor)
    mHasAlpha,     \* boolean mHasAlpha (not initialised by the constructor)
    mAnimations,   \* SArray<Animation> mAnimations, in insertion order
    mLastEnd,      \* long mLastEnd (not initialised by the constructor)
    mDuration,     \* Animation::mDuration of the set
    mStartOffset,  \* Animation::mStartOffset of the set
    mStartTime,    \* Animation::mStartTime of the set
    mStarted,      \* Animation::mStarted of the set
    mEnded,        \* Animation::mEnded of the set
    mFillAfter,    \* Animation::mFillAfter of the set
    mFillBefore,   \* Animation::mFillBefore of the set
    mRepeatMode,   \* Animation::mRepeatMode of the set
    mListener,     \* Animation::mListener of the set: TRUE when not NULL
    t,             \* the out-parameter Transformation &t of the last getTransformation
    reports,       \* what each child queried by the last getTransformation returned
    events,        \* the listener callbacks delivered by the last getTransformation
    startCount,    \* number of onAnimationStart callbacks delivered so far
    lastOp,        \* the method that ran last
    ret            \* its return value

vars == <<mFlags, mDirty, mHasAlpha, mAnimations, mLastEnd, mDuration,
          mStartOffset, mStartTime, mStarted, mEnded, mFillAfter, mFillBefore,
          mRepeatMode, mListener, t, reports, events, startCount, lastOp, ret>>

---------------------------------------------------------------------------
(* Bounds of the model *)

MaxChildren == 2
MaxTime == 2

(* Program constants *)

PROPERTY_FILL_AFTER_MASK == 1
PROPERTY_FILL_BEFORE_MASK == 2
PROPERTY_REPEAT_MODE_MASK == 4
PROPERTY_START_OFFSET_MASK == 8
PROPERTY_SHARE_INTERPOLATOR_MASK == 16
PROPERTY_DURATION_MASK == 32
StartTimeSentinel == 100000

(* Base class: Animation::RESTART, Animation::REVERSE, START_ON_FIRST_FRAME *)
RESTART == 1
REVERSE == 2
START_ON_FIRST_FRAME == -1

smax(a, b) == IF a > b THEN a ELSE b
smin(a, b) == IF a < b THEN a ELSE b

(* (mFlags & mask) == mask, for a one-bit mask *)
HasFlag(flags, mask) == (flags \div mask) % 2 = 1
(* mFlags |= mask *)
OrFlag(flags, mask) == IF HasFlag(flags, mask) THEN flags ELSE flags + mask
(* setFlag(mask, value) *)
setFlag(flags, mask, value) ==
    IF value THEN OrFlag(flags, mask)
    ELSE IF HasFlag(flags, mask) THEN flags - mask ELSE flags

---------------------------------------------------------------------------
(* Base class: Transformation, an affine 2D matrix                        *)
(*     [ a b tx ]                                                          *)
(*     [ c d ty ]                                                          *)
(* held as <<a, b, c, d, tx, ty>>, and an alpha (0 or 1 here).             *)

Identity == [m |-> <<1, 0, 0, 1, 0, 0>>, alpha |-> 1]

MatMul(p, q) ==
    << p[1] * q[1] + p[2] * q[3],
       p[1] * q[2] + p[2] * q[4],
       p[3] * q[1] + p[4] * q[3],
       p[3] * q[2] + p[4] * q[4],
       p[1] * q[5] + p[2] * q[6] + p[5],
       p[3] * q[5] + p[4] * q[6] + p[6] >>

(* Transformation::compose: matrix concatenation and alpha multiplication *)
Compose(acc, temp) == [m |-> MatMul(acc.m, temp.m), alpha |-> acc.alpha * temp.alpha]

Rotate90 == [m |-> <<0, -1, 1, 0, 0, 0>>, alpha |-> 1]
Translate == [m |-> <<1, 0, 0, 1, 1, 0>>, alpha |-> 1]
Fade == [m |-> <<1, 0, 0, 1, 0, 0>>, alpha |-> 0]

---------------------------------------------------------------------------
(* Base class: a child Animation as the caller hands it to addAnimation.  *)

NewAnimation(xf, hasAlpha, startOffset, duration, startTime, fillEnabled, fillBefore, fillAfter, repeatMode) ==
    [ xf |-> xf, hasAlpha |-> hasAlpha,
      mStartOffset |-> startOffset, mDuration |-> duration,
      mStartTime |-> startTime,
      mFillEnabled |-> fillEnabled, mFillBefore |-> fillBefore,
      mFillAfter |-> fillAfter, mRepeatMode |-> repeatMode,
      mStarted |-> FALSE, mEnded |-> FALSE, mOneMoreTime |-> TRUE ]

(* The animations the callers of this model add. *)
Pool ==
    { NewAnimation(Rotate90, FALSE, 0, 2, START_ON_FIRST_FRAME, FALSE, TRUE, FALSE, RESTART),
      NewAnimation(Translate, FALSE, 0, 1, 0, TRUE, FALSE, FALSE, RESTART),
      NewAnimation(Fade, TRUE, 2, 0, 1, TRUE, TRUE, TRUE, REVERSE) }

(* Values an uninitialised long may hold. *)
Garbage == {-1, 0, 5}

Durations == {1, 3}
StartOffsets == {0, 1}
StartTimes == {START_ON_FIRST_FRAME, 1, StartTimeSentinel + 1}
Times == 0..MaxTime

---------------------------------------------------------------------------
(* Base class: Animation::getTransformation(currentTime, outTransformation, *)
(* scale) of a child with no repeat count.  Yields the child afterwards,   *)
(* the value it returns and what it left in the out-parameter.  The        *)
(* normalised time (currentTime - (start + offset)) / duration is compared *)
(* with 0 and 1 in integers; the transformation a child applies inside its *)
(* window is its fixed xf.                                                 *)
ChildGetTransformation(a, currentTime, temp) ==
    LET start == IF a.mStartTime = START_ON_FIRST_FRAME THEN currentTime ELSE a.mStartTime
        elapsed == currentTime - (start + a.mStartOffset)
        expired == IF a.mDuration # 0 THEN elapsed >= a.mDuration ELSE currentTime >= start
        before == a.mDuration # 0 /\ elapsed < 0
        after == a.mDuration # 0 /\ elapsed > a.mDuration
        inWindow == \/ ~a.mFillEnabled
                    \/ (~before \/ a.mFillBefore) /\ (~after \/ a.mFillAfter)
        more == ~expired
        oneMore == ~more /\ a.mOneMoreTime
    IN  [ a |-> [a EXCEPT !.mStartTime = start,
                          !.mStarted = a.mStarted \/ inWindow,
                          !.mEnded = a.mEnded \/ expired,
                          !.mOneMoreTime = IF oneMore THEN FALSE ELSE a.mOneMoreTime],
          ret |-> (more \/ oneMore),
          temp |-> IF inWindow THEN Compose(temp, a.xf) ELSE temp ]

(* Base class: Animation::setStartTime *)
ChildSetStartTime(a, startTimeMillis) ==
    [a EXCEPT !.mStartTime = startTimeMillis, !.mStarted = FALSE, !.mEnded = FALSE]

(* Base class: Animation::reset *)
ChildReset(a) == [a EXCEPT !.mOneMoreTime = TRUE]

---------------------------------------------------------------------------
(* AnimationSet *)

(* addAnimation without the test of PROPERTY_DURATION_MASK *)
AddTimingIgnoringFlag(flags, count, startOffset, duration, lastEnd, a) ==
    IF count = 1
    THEN [mDuration |-> a.mStartOffset + a.mDuration,
          mLastEnd |-> startOffset + (a.mStartOffset + a.mDuration)]
    ELSE [mDuration |-> smax(lastEnd, a.mStartOffset + a.mDuration) - startOffset,
          mLastEnd |-> smax(lastEnd, a.mStartOffset + a.mDuration)]

(* addAnimation that takes the end of the child just added for the last end *)
AddTimingWithoutMax(flags, count, startOffset, duration, lastEnd, a) ==
    IF HasFlag(flags, PROPERTY_DURATION_MASK)
    THEN [mDuration |-> duration, mLastEnd |-> startOffset + duration]
    ELSE [mDuration |-> a.mStartOffset + a.mDuration - startOffset,
          mLastEnd |-> a.mStartOffset + a.mDuration]

(* addAnimation: the timing fields after child a was appended; count is    *)
(* mAnimations.GetCount() after the append.                                *)
AddTiming(flags, count, startOffset, duration, lastEnd, a) ==
    IF HasFlag(flags, PROPERTY_DURATION_MASK)
    THEN [mDuration |-> duration, mLastEnd |-> startOffset + duration]
    ELSE IF count = 1
         THEN [mDuration |-> a.mStartOffset + a.mDuration,
               mLastEnd |-> startOffset + (a.mStartOffset + a.mDuration)]
         ELSE [mDuration |-> smax(lastEnd, a.mStartOffset + a.mDuration) - startOffset,
               mLastEnd |-> smax(lastEnd, a.mStartOffset + a.mDuration)]

RECURSIVE MaxChildDuration(_, _, _)
(* getDuration: the loop duration = smax(duration, mAnimations[i].getDuration()) *)
MaxChildDuration(anims, i, duration) ==
    IF i > Len(anims) THEN duration
    ELSE MaxChildDuration(anims, i + 1, smax(duration, anims[i].mDuration))

(* getDuration that returns the cached mDuration whether or not it was set *)
GetDurationCached(flags, duration, anims) == duration

(* getDuration *)
GetDurationOf(flags, duration, anims) ==
    IF HasFlag(flags, PROPERTY_DURATION_MASK) THEN duration
    ELSE MaxChildDuration(anims, 1, 0)

RECURSIVE MinChildStartTime(_, _, _)
(* getStartTime: the loop startTime = smin(startTime, a.getStartTime()) *)
MinChildStartTime(anims, i, startTime) ==
    IF i > Len(anims) THEN startTime
    ELSE MinChildStartTime(anims, i + 1, smin(startTime, anims[i].mStartTime))

(* getStartTime *)
GetStartTimeOf(anims) == MinChildStartTime(anims, 1, StartTimeSentinel)

RECURSIVE AnyChildHasAlpha(_, _)
(* hasAlpha: the scan of the children *)
AnyChildHasAlpha(anims, i) ==
    IF i > Len(anims) THEN FALSE
    ELSE IF anims[i].hasAlpha THEN TRUE ELSE AnyChildHasAlpha(anims, i + 1)

(* setStartTime whose loop stops one child short *)
SetStartTimeAllButLast(anims, startTimeMillis) ==
    [i \in 1..Len(anims) |->
        IF i < Len(anims) THEN ChildSetStartTime(anims[i], startTimeMillis) ELSE anims[i]]

(* setStartTime: the loop over the children *)
SetStartTimeChildren(anims, startTimeMillis) ==
    [i \in 1..Len(anims) |-> ChildSetStartTime(anims[i], startTimeMillis)]

(* reset: restoreChildrenStartOffset(), whose body is commented out *)
restoreChildrenStartOffset(anims) == anims

(* initialize: the loop that pushes the properties down is commented out *)
InitializeChildren(anims, flags, duration, fillAfter, fillBefore, repeatMode) == anims

(* getTransformation whose loop runs forwards, for (i = 0; i < count; i++) *)
LoopOrderForward(count) == [k \in 1..count |-> k]

(* getTransformation: the order in which the loop visits the children,     *)
(* for (i = count - 1; i >= 0; --i), as 1-based positions.                 *)
LoopOrder(count) == [k \in 1..count |-> count + 1 - k]

(* The loop body with  more = more || a.getTransformation(...) : a child is *)
(* not queried once more is true.                                          *)
LoopStepShortCircuit(acc, i, currentTime) ==
    IF acc.more
    THEN [acc EXCEPT !.started = acc.started \/ acc.anims[i].mStarted,
                     !.ended = acc.anims[i].mEnded /\ acc.ended]
    ELSE LET r == ChildGetTransformation(acc.anims[i], currentTime, Identity)
         IN  [ anims |-> [acc.anims EXCEPT ![i] = r.a],
               more |-> r.ret,
               t |-> Compose(acc.t, r.temp),
               started |-> (acc.started \/ r.a.mStarted),
               ended |-> (r.a.mEnded /\ acc.ended),
               reports |-> (acc.reports @@ (i :> [ret |-> r.ret, temp |-> r.temp])) ]

(* getTransformation: one pass of the loop body over child i *)
LoopStep(acc, i, currentTime) ==
    LET r == ChildGetTransformation(acc.anims[i], currentTime, Identity)
    IN  [ anims |-> [acc.anims EXCEPT ![i] = r.a],
          more |-> (r.ret \/ acc.more),
          t |-> Compose(acc.t, r.temp),
          started |-> (acc.started \/ r.a.mStarted),
          ended |-> (r.a.mEnded /\ acc.ended),
          reports |-> (acc.reports @@ (i :> [ret |-> r.ret, temp |-> r.temp])) ]

RECURSIVE Loop(_, _, _, _)
Loop(acc, order, k, currentTime) ==
    IF k > Len(order) THEN acc
    ELSE Loop(LoopStep(acc, order[k], currentTime), order, k + 1, currentTime)

(* getTransformation: the locals before the loop, t.clear() and the loop *)
RunLoop(anims, currentTime) ==
    Loop([anims |-> anims, more |-> FALSE, t |-> Identity, started |-> FALSE,
          ended |-> TRUE, reports |-> <<>>],
         LoopOrder(Len(anims)), 1, currentTime)

(* The listener blocks with  if (ended && !mEnded)  for the end callback *)
FireCallbacksOnEndOnly(started, ended, wasStarted, wasEnded, listener) ==
    LET fireStart == started /\ ~wasStarted
        fireEnd == ended /\ ~wasEnded
    IN  [ mStarted |-> IF fireStart THEN TRUE ELSE wasStarted,
          mEnded |-> IF fireEnd THEN ended ELSE wasEnded,
          events |-> (IF fireStart /\ listener THEN <<"onAnimationStart">> ELSE <<>>)
                     \o (IF fireEnd /\ listener THEN <<"onAnimationEnd">> ELSE <<>>) ]

(* getTransformation: the two listener blocks after the loop *)
FireCallbacks(started, ended, wasStarted, wasEnded, listener) ==
    LET fireStart == started /\ ~wasStarted
        fireEnd == ended # wasEnded
    IN  [ mStarted |-> IF fireStart THEN TRUE ELSE wasStarted,
          mEnded |-> IF fireEnd THEN ended ELSE wasEnded,
          events |-> (IF fireStart /\ listener THEN <<"onAnimationStart">> ELSE <<>>)
                     \o (IF fireEnd /\ listener THEN <<"onAnimationEnd">> ELSE <<>>) ]

CountStarts(ev) == Cardinality({i \in DOMAIN ev : ev[i] = "onAnimationStart"})

---------------------------------------------------------------------------
(* The state after AnimationSet(shareInterpolator): init() sets mStartTime *)
(* to 0; mDirty, mHasAlpha and mLastEnd are left uninitialised.            *)
Init ==
    /\ \E shareInterpolator \in BOOLEAN :
          mFlags = setFlag(0, PROPERTY_SHARE_INTERPOLATOR_MASK, shareInterpolator)
    /\ mDirty \in BOOLEAN
    /\ mHasAlpha \in BOOLEAN
    /\ mLastEnd \in Garbage
    /\ mAnimations = <<>>
    /\ mDuration = 0
    /\ mStartOffset = 0
    /\ mStartTime = 0
    /\ mStarted = FALSE
    /\ mEnded = FALSE
    /\ mFillAfter = FALSE
    /\ mFillBefore = TRUE
    /\ mRepeatMode = RESTART
    /\ mListener = FALSE
    /\ t = Identity
    /\ reports = <<>>
    /\ events = <<>>
    /\ startCount = 0
    /\ lastOp = "AnimationSet"
    /\ ret = 0

(* What the caller sees of a call: the method and its return value; the    *)
(* out-parameter, the children's reports and the callbacks belong to       *)
(* getTransformation and are blank after any other method.                 *)
Observe(op, r) == lastOp' = op /\ ret' = r

NoFrame == t' = Identity /\ reports' = <<>> /\ events' = <<>>

addAnimation ==
    \E a \in Pool :
        /\ Len(mAnimations) < MaxChildren
        /\ mAnimations' = Append(mAnimations, a)
        /\ LET tm == AddTiming(mFlags, Len(mAnimations) + 1, mStartOffset,
                               mDuration, mLastEnd, a)
           IN  mDuration' = tm.mDuration /\ mLastEnd' = tm.mLastEnd
        /\ mDirty' = TRUE
        /\ NoFrame
        /\ Observe("addAnimation", 0)
        /\ UNCHANGED <<mFlags, mHasAlpha, mStartOffset, mStartTime, mStarted,
                       mEnded, mFillAfter, mFillBefore, mRepeatMode, mListener,
                       startCount>>

setDuration ==
    \E durationMillis \in Durations :
        /\ mFlags' = OrFlag(mFlags, PROPERTY_DURATION_MASK)
        /\ mDuration' = durationMillis
        /\ mLastEnd' = mStartOffset + durationMillis
        /\ NoFrame
        /\ Observe("setDuration", 0)
        /\ UNCHANGED <<mDirty, mHasAlpha, mAnimations, mStartOffset, mStartTime,
                       mStarted, mEnded, mFillAfter, mFillBefore, mRepeatMode,
                       mListener, startCount>>

setStartOffset ==
    \E startOffset \in StartOffsets :
        /\ mFlags' = OrFlag(mFlags, PROPERTY_START_OFFSET_MASK)
        /\ mStartOffset' = startOffset
        /\ NoFrame
        /\ Observe("setStartOffset", 0)
        /\ UNCHANGED <<mDirty, mHasAlpha, mAnimations, mLastEnd, mDuration,
                       mStartTime, mStarted, mEnded, mFillAfter, mFillBefore,
                       mRepeatMode, mListener, startCount>>

setFillAfter ==
    \E fillAfter \in BOOLEAN :
        /\ mFlags' = OrFlag(mFlags, PROPERTY_FILL_AFTER_MASK)
        /\ mFillAfter' = fillAfter
        /\ NoFrame
        /\ Observe("setFillAfter", 0)
        /\ UNCHANGED <<mDirty, mHasAlpha, mAnimations, mLastEnd, mDuration,
                       mStartOffset, mStartTime, mStarted, mEnded, mFillBefore,
                       mRepeatMode, mListener, startCount>>

setFillBefore ==
    \E fillBefore \in BOOLEAN :
        /\ mFlags' = OrFlag(mFlags, PROPERTY_FILL_BEFORE_MASK)
        /\ mFillBefore' = fillBefore
        /\ NoFrame
        /\ Observe("setFillBefore", 0)
        /\ UNCHANGED <<mDirty, mHasAlpha, mAnimations, mLastEnd, mDuration,
                       mStartOffset, mStartTime, mStarted, mEnded, mFillAfter,
                       mRepeatMode, mListener, startCount>>

setRepeatMode ==
    \E repeatMode \in {RESTART, REVERSE} :
        /\ mFlags' = OrFlag(mFlags, PROPERTY_REPEAT_MODE_MASK)
        /\ mRepeatMode' = repeatMode
        /\ NoFrame
        /\ Observe("setRepeatMode", 0)
        /\ UNCHANGED <<mDirty, mHasAlpha, mAnimations, mLastEnd, mDuration,
                       mStartOffset, mStartTime, mStarted, mEnded, mFillAfter,
                       mFillBefore, mListener, startCount>>

(* initialize: ensureInterpolator() touches only the set's interpolator,  *)
(* which the model does not hold.                                          *)
initialize ==
    /\ mAnimations' = InitializeChildren(mAnimations, mFlags, mDuration,
                                         mFillAfter, mFillBefore, mRepeatMode)
    /\ NoFrame
    /\ Observe("initialize", 0)
    /\ UNCHANGED <<mFlags, mDirty, mHasAlpha, mLastEnd, mDuration, mStartOffset,
                   mStartTime, mStarted, mEnded, mFillAfter, mFillBefore,
                   mRepeatMode, mListener, startCount>>

hasAlpha ==
    /\ IF mDirty
       THEN mDirty' = FALSE /\ mHasAlpha' = AnyChildHasAlpha(mAnimations, 1)
       ELSE UNCHANGED <<mDirty, mHasAlpha>>
    /\ NoFrame
    /\ Observe("hasAlpha", mHasAlpha')
    /\ UNCHANGED <<mFlags, mAnimations, mLastEnd, mDuration, mStartOffset,
                   mStartTime, mStarted, mEnded, mFillAfter, mFillBefore,
                   mRepeatMode, mListener, startCount>>

getDuration ==
    /\ NoFrame
    /\ Observe("getDuration", GetDurationOf(mFlags, mDuration, mAnimations))
    /\ UNCHANGED <<mFlags, mDirty, mHasAlpha, mAnimations, mLastEnd, mDuration,
                   mStartOffset, mStartTime, mStarted, mEnded, mFillAfter,
                   mFillBefore, mRepeatMode, mListener, startCount>>

getStartTime ==
    /\ NoFrame
    /\ Observe("getStartTime", GetStartTimeOf(mAnimations))
    /\ UNCHANGED <<mFlags, mDirty, mHasAlpha, mAnimations, mLastEnd, mDuration,
                   mStartOffset, mStartTime, mStarted, mEnded, mFillAfter,
                   mFillBefore, mRepeatMode, mListener, startCount>>

(* setStartTime: Animation::setStartTime on the set (base class: it also   *)
(* clears mStarted and mEnded), then the loop over the children.           *)
setStartTime ==
    \E startTimeMillis \in StartTimes :
        /\ mStartTime' = startTimeMillis
        /\ mStarted' = FALSE
        /\ mEnded' = FALSE
        /\ mAnimations' = SetStartTimeChildren(mAnimations, startTimeMillis)
        /\ NoFrame
        /\ Observe("setStartTime", 0)
        /\ UNCHANGED <<mFlags, mDirty, mHasAlpha, mLastEnd, mDuration,
                       mStartOffset, mFillAfter, mFillBefore, mRepeatMode,
                       mListener, startCount>>

(* reset: Animation::reset() on the set (base class: it touches mMore,     *)
(* mOneMoreTime and the like, which no method of the set reads), then      *)
(* restoreChildrenStartOffset().                                           *)
reset ==
    /\ mAnimations' = restoreChildrenStartOffset(mAnimations)
    /\ NoFrame
    /\ Observe("reset", 0)
    /\ UNCHANGED <<mFlags, mDirty, mHasAlpha, mLastEnd, mDuration, mStartOffset,
                   mStartTime, mStarted, mEnded, mFillAfter, mFillBefore,
                   mRepeatMode, mListener, startCount>>

(* Base class: Animation::setAnimationListener *)
setAnimationListener ==
    /\ mListener' = ~mListener
    /\ NoFrame
    /\ Observe("setAnimationListener", 0)
    /\ UNCHANGED <<mFlags, mDirty, mHasAlpha, mAnimations, mLastEnd, mDuration,
                   mStartOffset, mStartTime, mStarted, mEnded, mFillAfter,
                   mFillBefore, mRepeatMode, startCount>>

getTransformation ==
    \E currentTime \in Times :
        \E r \in {RunLoop(mAnimations, currentTime)} :
            \E cb \in {FireCallbacks(r.started, r.ended, mStarted, mEnded, mListener)} :
                /\ mAnimations' = r.anims
                /\ t' = r.t
                /\ reports' = r.reports
                /\ mStarted' = cb.mStarted
                /\ mEnded' = cb.mEnded
                /\ events' = cb.events
                /\ startCount' = startCount + CountStarts(cb.events)
                /\ Observe("getTransformation", r.more)
                /\ UNCHANGED <<mFlags, mDirty, mHasAlpha, mLastEnd, mDuration,
                               mStartOffset, mStartTime, mFillAfter, mFillBefore,
                               mRepeatMode, mListener>>

---------------------------------------------------------------------------
(* Timing: building a set and asking for its duration. *)
NextTiming == addAnimation \/ setDuration \/ setStartOffset \/ getDuration

SpecTiming == Init /\ [][NextTiming]_vars

(* Properties: the setters of pushed-down properties and initialize. *)
NextProps ==
    \/ addAnimation \/ setDuration \/ setFillAfter \/ setFillBefore
    \/ setRepeatMode \/ initialize \/ hasAlpha

SpecProps == Init /\ [][NextProps]_vars

(* Frames: a set that is built and then drawn frame by frame. *)
NextFrames == addAnimation \/ setAnimationListener \/ getTransformation

SpecFrames == Init /\ [][NextFrames]_vars

(* Start times: setStartTime, getStartTime and reset between frames. *)
NextStart ==
    \/ addAnimation \/ setStartTime \/ getStartTime \/ reset \/ getTransformation

SpecStart == Init /\ [][NextStart]_vars

Next == NextTiming \/ NextProps \/ NextFrames \/ NextStart

Spec == Init /\ [][Next]_vars

---------------------------------------------------------------------------
(* Properties *)

Children == 1..Len(mAnimations)
DurationSet == HasFlag(mFlags, PROPERTY_DURATION_MASK)
StartOffsetSet == HasFlag(mFlags, PROPERTY_START_OFFSET_MASK)
EndOf(a) == a.mStartOffset + a.mDuration

(* v is the maximum of f over the children *)
IsMaxOfEnds(v) ==
    /\ \E i \in Children : v = EndOf(mAnimations[i])
    /\ \A i \in Children : EndOf(mAnimations[i]) <= v

IsMaxOfDurations(v) ==
    /\ \E i \in Children : v = mAnimations[i].mDuration
    /\ \A i \in Children : mAnimations[i].mDuration <= v

(* C1, as claimed: without setDuration, getDuration() returns the maximum *)
(* over the children of startOffset + duration, minus the set's own start  *)
(* offset.                                                                 *)
C1_DurationIsMaxEndMinusOffset ==
    (lastOp = "getDuration" /\ ~DurationSet /\ Len(mAnimations) > 0)
        => IsMaxOfEnds(ret + mStartOffset)

(* C1, amended: without setDuration, getDuration() returns the maximum    *)
(* over the children of the child's own duration, and 0 for no children;   *)
(* neither the children's start offsets nor the set's enter into it.       *)
C1_DurationIsMaxChildDuration ==
    (lastOp = "getDuration" /\ ~DurationSet)
        => IF Len(mAnimations) = 0 THEN ret = 0 ELSE IsMaxOfDurations(ret)

(* C1: getDuration() of a set of two children, with no setDuration, where *)
(* the longest child duration is not the latest end.                       *)
C1_Witness ==
    /\ lastOp = "getDuration" /\ ~DurationSet /\ Len(mAnimations) = 2
    /\ mAnimations[1].mDuration # mAnimations[2].mDuration
    /\ ~IsMaxOfEnds(ret + mStartOffset)

(* C7, as claimed: after initialize(), every child carries the value of   *)
(* each of duration, repeatMode, fillBefore and fillAfter that was set on  *)
(* the set.                                                                *)
C7_PropertiesPushedDown ==
    lastOp = "initialize" =>
        \A i \in Children :
            /\ DurationSet => mAnimations[i].mDuration = mDuration
            /\ HasFlag(mFlags, PROPERTY_REPEAT_MODE_MASK)
                   => mAnimations[i].mRepeatMode = mRepeatMode
            /\ HasFlag(mFlags, PROPERTY_FILL_BEFORE_MASK)
                   => mAnimations[i].mFillBefore = mFillBefore
            /\ HasFlag(mFlags, PROPERTY_FILL_AFTER_MASK)
                   => mAnimations[i].mFillAfter = mFillAfter

(* C8, as claimed: an addAnimation made after setDuration leaves the      *)
(* duration and the cached last end unchanged; the child list grows by the *)
(* child and the alpha cache is marked dirty; getDuration() returns the    *)
(* explicit value.                                                         *)
C8_AddLeavesTimingUnchanged ==
    [][ /\ (lastOp' = "addAnimation" /\ DurationSet)
            => /\ mDuration' = mDuration
               /\ mLastEnd' = mLastEnd
               /\ mDirty'
               /\ Len(mAnimations') = Len(mAnimations) + 1
               /\ SubSeq(mAnimations', 1, Len(mAnimations)) = mAnimations
        /\ (lastOp' = "getDuration" /\ DurationSet) => ret' = mDuration
      ]_vars

(* C8, amended: an addAnimation made after setDuration leaves the         *)
(* duration unchanged and sets the cached last end to startOffset +        *)
(* duration (a change whenever setStartOffset moved the start offset       *)
(* since); the child list grows by the child and the alpha cache is marked *)
(* dirty; once set, the duration changes only in setDuration, and          *)
(* getDuration() returns it.                                               *)
C8_AddKeepsExplicitDuration ==
    [][ /\ (lastOp' = "addAnimation" /\ DurationSet)
            => /\ mDuration' = mDuration
               /\ mLastEnd' = mStartOffset + mDuration
               /\ mDirty'
               /\ Len(mAnimations') = Len(mAnimations) + 1
               /\ SubSeq(mAnimations', 1, Len(mAnimations)) = mAnimations
        /\ (lastOp' # "setDuration" /\ DurationSet) => mDuration' = mDuration
        /\ (lastOp' = "getDuration" /\ DurationSet) => ret' = mDuration
      ]_vars

(* C8: an addAnimation after setDuration and a later setStartOffset, so   *)
(* that the cached last end is no longer the one setDuration left.         *)
C8_Witness ==
    /\ lastOp = "addAnimation" /\ DurationSet /\ StartOffsetSet
    /\ Len(mAnimations) = 2
    /\ mStartOffset = 1
    /\ mLastEnd = mDuration + 1

(* C9, as claimed: with at least one child and no setDuration, after any  *)
(* addAnimation and setStartOffset calls, duration = lastEnd - startOffset *)
(* and lastEnd is the maximum over the children of startOffset + duration. *)
C9_DurationIsLastEndMinusOffset ==
    (Len(mAnimations) > 0 /\ ~DurationSet)
        => mDuration = mLastEnd - mStartOffset /\ IsMaxOfEnds(mLastEnd)

(* C9, amended: with at least one child and neither setDuration nor       *)
(* setStartOffset called, duration = lastEnd - startOffset and lastEnd is  *)
(* the maximum over the children of startOffset + duration.                *)
C9_DurationIsLastEndWithoutOffset ==
    (Len(mAnimations) > 0 /\ ~DurationSet /\ ~StartOffsetSet)
        => mDuration = mLastEnd - mStartOffset /\ IsMaxOfEnds(mLastEnd)

(* C9: two children added with no setDuration and no setStartOffset, the  *)
(* second one ending before the first.                                     *)
C9_Witness ==
    /\ lastOp = "addAnimation" /\ ~DurationSet /\ ~StartOffsetSet
    /\ Len(mAnimations) = 2
    /\ EndOf(mAnimations[2]) < EndOf(mAnimations[1])

RECURSIVE ComposeLastFirst(_, _, _)
(* The children's transformations rep[k].temp composed into acc from      *)
(* child k down to child 1.                                                *)
ComposeLastFirst(rep, k, acc) ==
    IF k = 0 THEN acc ELSE ComposeLastFirst(rep, k - 1, Compose(acc, rep[k].temp))

Commute(x, y) == Compose(x, y) = Compose(y, x)

(* C2: getTransformation leaves in t the identity composed with the       *)
(* children's transformations from the last-added child to the first-added *)
(* one; and for two children whose transformations at that timestamp do    *)
(* not commute, the set holding them in the opposite insertion order       *)
(* yields a different t for the same timestamp.                            *)
C2_ComposesInReverseInsertionOrder ==
    [][ lastOp' = "getTransformation" =>
          /\ DOMAIN reports' = Children
          /\ t' = ComposeLastFirst(reports', Len(mAnimations), Identity)
          /\ \A currentTime \in Times :
                LET r == RunLoop(mAnimations, currentTime)
                    swapped == RunLoop(<<mAnimations[2], mAnimations[1]>>, currentTime)
                IN  ( /\ Len(mAnimations) = 2
                      /\ r.anims = mAnimations' /\ r.t = t'
                      /\ ~Commute(r.reports[1].temp, r.reports[2].temp) )
                        => swapped.t # t'
      ]_vars

(* C2: a getTransformation on two children whose transformations, a       *)
(* rotation and a translation, do not commute.                             *)
C2_Witness ==
    /\ lastOp = "getTransformation" /\ Len(mAnimations) = 2
    /\ DOMAIN reports = {1, 2}
    /\ {reports[1].temp, reports[2].temp} = {Rotate90, Translate}
    /\ ~Commute(reports[1].temp, reports[2].temp)
    /\ t = Compose(reports[2].temp, reports[1].temp)

StartFired(ev) == \E i \in DOMAIN ev : ev[i] = "onAnimationStart"
EndFired(ev) == \E i \in DOMAIN ev : ev[i] = "onAnimationEnd"
CountEnds(ev) == Cardinality({i \in DOMAIN ev : ev[i] = "onAnimationEnd"})

(* C3: in a getTransformation call on a set with a listener,              *)
(* onAnimationStart is delivered exactly when some child has started and   *)
(* the set's started flag was false, which happens in at most one call of  *)
(* a sequence; onAnimationEnd is delivered exactly when the AND of the     *)
(* children's ended states differs from the cached ended flag, in either   *)
(* direction, and the cached flag then holds the new value; no callback is *)
(* delivered twice in a call.                                              *)
C3_CallbacksOncePerTransition ==
    [][ (lastOp' = "getTransformation" /\ mListener) =>
          LET anyStarted == \E i \in Children : mAnimations'[i].mStarted
              allEnded == \A i \in Children : mAnimations'[i].mEnded
          IN  /\ StartFired(events') <=> (anyStarted /\ ~mStarted)
              /\ mStarted' <=> (mStarted \/ anyStarted)
              /\ EndFired(events') <=> (allEnded # mEnded)
              /\ mEnded' = allEnded
              /\ CountStarts(events') <= 1 /\ CountEnds(events') <= 1
              /\ startCount' <= 1
              /\ startCount > 0 => ~StartFired(events')
      ]_vars

(* C3: a call that delivers onAnimationEnd alone, for the transition of   *)
(* the ended state from true back to false, after onAnimationStart was     *)
(* delivered in an earlier call.                                           *)
C3_Witness ==
    /\ lastOp = "getTransformation" /\ mListener
    /\ events = <<"onAnimationEnd">>
    /\ ~mEnded /\ mStarted /\ startCount = 1

(* C4: after a getTransformation call every child has been queried, the   *)
(* returned value is true iff some child's getTransformation returned      *)
(* true, and the set's ended flag is true iff every child has ended.       *)
C4_MoreIsAnyEndedIsAll ==
    lastOp = "getTransformation" =>
        /\ DOMAIN reports = Children
        /\ ret <=> \E i \in Children : reports[i].ret
        /\ mEnded <=> \A i \in Children : mAnimations[i].mEnded

(* C4: a call on two children of which the first-added one is still       *)
(* animating and the last-added one is not, and not all have ended.        *)
C4_Witness ==
    /\ lastOp = "getTransformation" /\ Len(mAnimations) = 2
    /\ DOMAIN reports = {1, 2}
    /\ reports[1].ret /\ ~reports[2].ret
    /\ ret /\ ~mEnded /\ mAnimations[2].mEnded

(* C10, as claimed: onAnimationEnd is delivered only if onAnimationStart  *)
(* was delivered in an earlier call or earlier in the same call.           *)
C10_EndOnlyAfterStart ==
    \A i \in DOMAIN events :
        events[i] = "onAnimationEnd"
            => \/ startCount - CountStarts(events) > 0
               \/ \E j \in 1..(i - 1) : events[j] = "onAnimationStart"

(* C5, as claimed: getStartTime() returns 100000 for no children and the  *)
(* minimum of the children's start times otherwise.                        *)
C5_StartTimeIsTrueMinimum ==
    lastOp = "getStartTime" =>
        IF Len(mAnimations) = 0 THEN ret = StartTimeSentinel
        ELSE /\ \E i \in Children : ret = mAnimations[i].mStartTime
             /\ \A i \in Children : ret <= mAnimations[i].mStartTime

(* C6, as claimed: after setStartTime(t) the set's start time and every   *)
(* child's equal t, and after reset() every child has been reset.          *)
C6_StartTimeAndResetFanOut ==
    /\ lastOp = "setStartTime"
           => /\ mStartTime \in StartTimes
              /\ \A i \in Children : mAnimations[i].mStartTime = mStartTime
    /\ lastOp = "reset"
           => \A i \in Children : mAnimations[i] = ChildReset(mAnimations[i])

(* C6, amended: after setStartTime(t) the set's start time and every      *)
(* child's equal t, whatever flags are set; reset() leaves every child as  *)
(* it was.                                                                 *)
C6_StartTimeFansOutResetDoesNot ==
    [][ /\ lastOp' = "setStartTime"
               => /\ mStartTime' \in StartTimes
                  /\ Len(mAnimations') = Len(mAnimations)
                  /\ \A i \in Children : mAnimations'[i].mStartTime = mStartTime'
        /\ lastOp' = "reset" => mAnimations' = mAnimations
      ]_vars

(* C6: a reset() of a set one of whose children is not in its reset state. *)
C6_Witness ==
    /\ lastOp = "reset" /\ Len(mAnimations) = 2
    /\ \E i \in Children : mAnimations[i] # ChildReset(mAnimations[i])

=============================================================================
